---------------------------- MODULE Spec2Model ----------------------------
(***************************************************************************)
(* relative-luminance: the BT.709 weighted sum over the two shipped        *)
(* numeric policies (f32, f64), the Rgb container and the Luminance trait. *)
(*                                                                         *)
(* f32 and f64 are modelled as IEEE-754 binary32 / binary64 with           *)
(* round-to-nearest-even, subnormals, signed zeros, infinities and one     *)
(* NaN.  A finite float is sign s, integer significand m and exponent e    *)
(* with value (-1)^s * m * 2^e; m is an unbounded natural held as a        *)
(* little-endian sequence of limbs, so that a 24x24 or 53x53 bit product  *)
(* is exact and no intermediate value reaches 2^31.                        *)
(***************************************************************************)
EXTENDS Integers, Sequences, FiniteSets, TLC

(***************************************************************************)
(* Unbounded naturals: little-endian limb sequences, no leading zero limb. *)
(***************************************************************************)
RECURSIVE IntBitLen(_)
IntBitLen(n) == IF n = 0 THEN 0 ELSE 1 + IntBitLen(n \div 2)

\* a limb product and its carry stay below 2^31
Base == 2 ^ 12
LimbBits == IntBitLen(Base) - 1

Limb(x, i) == IF i <= Len(x) THEN x[i] ELSE 0

RECURSIVE BNorm(_)
BNorm(x) ==
    IF x = <<>> THEN <<>>
    ELSE IF x[Len(x)] = 0 THEN BNorm(SubSeq(x, 1, Len(x) - 1))
    ELSE x

RECURSIVE BFromInt(_)
BFromInt(n) == IF n = 0 THEN <<>> ELSE <<n % Base>> \o BFromInt(n \div Base)

RECURSIVE BAddRec(_, _, _, _)
BAddRec(x, y, i, c) ==
    IF i > Len(x) /\ i > Len(y)
    THEN (IF c = 0 THEN <<>> ELSE <<c>>)
    ELSE LET s == Limb(x, i) + Limb(y, i) + c
         IN  <<s % Base>> \o BAddRec(x, y, i + 1, s \div Base)

BAdd(x, y) == BAddRec(x, y, 1, 0)

\* x - y for x >= y
RECURSIVE BSubRec(_, _, _, _)
BSubRec(x, y, i, c) ==
    IF i > Len(x) THEN <<>>
    ELSE LET s == x[i] - Limb(y, i) - c
         IN  IF s < 0 THEN <<s + Base>> \o BSubRec(x, y, i + 1, 1)
             ELSE <<s>> \o BSubRec(x, y, i + 1, 0)

BSub(x, y) == BNorm(BSubRec(x, y, 1, 0))

\* -1, 0, 1 as x < y, x = y, x > y
RECURSIVE BCmpRec(_, _, _)
BCmpRec(x, y, i) ==
    IF i = 0 THEN 0
    ELSE IF x[i] < y[i] THEN -1
    ELSE IF x[i] > y[i] THEN 1
    ELSE BCmpRec(x, y, i - 1)

BCmp(x, y) ==
    IF Len(x) < Len(y) THEN -1
    ELSE IF Len(x) > Len(y) THEN 1
    ELSE BCmpRec(x, y, Len(x))

\* x * k for 0 <= k <= Base
RECURSIVE BMulSmallRec(_, _, _, _)
BMulSmallRec(x, k, i, c) ==
    IF i > Len(x) THEN (IF c = 0 THEN <<>> ELSE <<c>>)
    ELSE LET s == x[i] * k + c
         IN  <<s % Base>> \o BMulSmallRec(x, k, i + 1, s \div Base)

BMulSmall(x, k) == IF k = 0 THEN <<>> ELSE BMulSmallRec(x, k, 1, 0)

Zeros(n) == [i \in 1..n |-> 0]

\* the sum of x[i] * y[k + 1 - i] for i in lo..hi: column k of the product
RECURSIVE BMulCol(_, _, _, _, _)
BMulCol(x, y, k, i, hi) ==
    IF i > hi THEN 0 ELSE x[i] * y[k + 1 - i] + BMulCol(x, y, k, i + 1, hi)

\* carries propagated through the columns k.. of x * y
RECURSIVE BMulRec(_, _, _, _)
BMulRec(x, y, k, c) ==
    IF k >= Len(x) + Len(y) THEN (IF c = 0 THEN <<>> ELSE <<c>>)
    ELSE LET lo == IF k > Len(y) THEN k + 1 - Len(y) ELSE 1
             hi == IF k < Len(x) THEN k ELSE Len(x)
             s  == BMulCol(x, y, k, lo, hi) + c
         IN  <<s % Base>> \o BMulRec(x, y, k + 1, s \div Base)

BMul(x, y) == IF x = <<>> \/ y = <<>> THEN <<>> ELSE BNorm(BMulRec(x, y, 1, 0))

\* x * 2^n
BShl(x, n) ==
    IF x = <<>> THEN <<>>
    ELSE Zeros(n \div LimbBits) \o BMulSmall(x, 2 ^ (n % LimbBits))

\* quotient and remainder of x by d, 0 < d < 2^18
RECURSIVE BDivSmallRec(_, _, _, _)
BDivSmallRec(x, d, i, r) ==
    IF i = 0 THEN [q |-> <<>>, r |-> r]
    ELSE LET cur  == r * Base + x[i]
             rest == BDivSmallRec(x, d, i - 1, cur % d)
         IN  [q |-> rest.q \o <<cur \div d>>, r |-> rest.r]

BDivSmall(x, d) ==
    LET res == BDivSmallRec(x, d, Len(x), 0)
    IN  [q |-> BNorm(res.q), r |-> res.r]

\* floor(x / 2^n)
BShr(x, n) ==
    IF n \div LimbBits >= Len(x) THEN <<>>
    ELSE BDivSmall(SubSeq(x, n \div LimbBits + 1, Len(x)), 2 ^ (n % LimbBits)).q

BBitLen(x) ==
    IF x = <<>> THEN 0 ELSE (Len(x) - 1) * LimbBits + IntBitLen(x[Len(x)])

BOdd(x) == x # <<>> /\ x[1] % 2 = 1

(***************************************************************************)
(* The float types of the two shipped policies.                            *)
(***************************************************************************)
Policies == {"f32", "f64"}

\* significand bits, least and greatest exponent of a normal number
Prec(T) == IF T = "f32" THEN 24 ELSE 53
Emax(T) == IF T = "f32" THEN 127 ELSE 1023
Emin(T) == 1 - Emax(T)
\* exponent of the last place of the subnormals
EminQ(T) == Emin(T) - (Prec(T) - 1)

NaN == [k |-> "nan", s |-> 0, m |-> <<>>, e |-> 0]
Inf(s) == [k |-> "inf", s |-> s, m |-> <<>>, e |-> 0]
Zero(s) == [k |-> "fin", s |-> s, m |-> <<>>, e |-> 0]
Fin(s, m, e) == [k |-> "fin", s |-> s, m |-> m, e |-> e]

IsNaN(a) == a.k = "nan"
IsInf(a) == a.k = "inf"
IsZero(a) == a.k = "fin" /\ a.m = <<>>
Xor(s, t) == (s + t) % 2

\* m has at most Prec(T) + 1 bits and q >= EminQ(T): carry out of the
\* significand, then overflow to infinity
Pack(T, s, m, q) ==
    IF m = <<>> THEN Zero(s)
    ELSE LET over == BBitLen(m) > Prec(T)
             m2   == IF over THEN BShr(m, 1) ELSE m
             q2   == IF over THEN q + 1 ELSE q
         IN  IF q2 + BBitLen(m2) - 1 > Emax(T) THEN Inf(s) ELSE Fin(s, m2, q2)

\* the float of T nearest to (-1)^s * m * 2^e, ties to even
Round(T, s, m, e) ==
    IF m = <<>> THEN Zero(s)
    ELSE LET q0 == e + BBitLen(m) - Prec(T)
             q  == IF q0 < EminQ(T) THEN EminQ(T) ELSE q0
         IN  IF q <= e THEN Pack(T, s, BShl(m, e - q), q)
             ELSE LET d    == q - e
                      quo  == BShr(m, d)
                      rem  == BSub(m, BShl(quo, d))
                      c    == BCmp(rem, BShl(<<1>>, d - 1))
                      up   == c > 0 \/ (c = 0 /\ BOdd(quo))
                  IN  Pack(T, s, IF up THEN BAdd(quo, <<1>>) ELSE quo, q)

\* the float of T nearest to ((-1)^s * m * 2^e) / d, 0 < d < 2^18, rounded once
RoundQuot(T, s, m, e, d) ==
    IF m = <<>> THEN Zero(s)
    ELSE LET k  == Prec(T) + 21
             qr == BDivSmall(BShl(m, k), d)
             st == IF qr.r = 0 THEN <<>> ELSE <<1>>
         IN  Round(T, s, BAdd(BShl(qr.q, 1), st), e - k - 1)

\* a * b
FMul(T, a, b) ==
    IF IsNaN(a) \/ IsNaN(b) THEN NaN
    ELSE IF IsInf(a) \/ IsInf(b)
         THEN (IF IsZero(a) \/ IsZero(b) THEN NaN ELSE Inf(Xor(a.s, b.s)))
    ELSE Round(T, Xor(a.s, b.s), BMul(a.m, b.m), a.e + b.e)

\* a + b
FAdd(T, a, b) ==
    IF IsNaN(a) \/ IsNaN(b) THEN NaN
    ELSE IF IsInf(a) THEN (IF IsInf(b) /\ a.s # b.s THEN NaN ELSE a)
    ELSE IF IsInf(b) THEN b
    ELSE IF IsZero(a) /\ IsZero(b) THEN Zero(IF a.s = 1 /\ b.s = 1 THEN 1 ELSE 0)
    ELSE IF IsZero(a) THEN b
    ELSE IF IsZero(b) THEN a
    \* an operand below a quarter of the other's last place rounds away
    ELSE IF b.e + BBitLen(b.m) <= a.e - 2 THEN a
    ELSE IF a.e + BBitLen(a.m) <= b.e - 2 THEN b
    ELSE LET e  == IF a.e < b.e THEN a.e ELSE b.e
             ma == BShl(a.m, a.e - e)
             mb == BShl(b.m, b.e - e)
             c  == BCmp(ma, mb)
         IN  IF a.s = b.s THEN Round(T, a.s, BAdd(ma, mb), e)
             ELSE IF c = 0 THEN Zero(0)
             ELSE IF c > 0 THEN Round(T, a.s, BSub(ma, mb), e)
             ELSE Round(T, b.s, BSub(mb, ma), e)

\* a / d for the float d of an integer 0 < d < 2^18
FDivInt(T, a, d) ==
    IF IsNaN(a) \/ IsInf(a) THEN a
    ELSE RoundQuot(T, a.s, a.m, a.e, d)

\* the float literal n / 10^k written in decimal, den = 10^k
FromDecimal(T, n, den) == RoundQuot(T, 0, BFromInt(n), 0, den)

\* f32::from(u8), T::from(small integer): exact
FromInt(T, n) ==
    IF n < 0 THEN Round(T, 1, BFromInt(-n), 0) ELSE Round(T, 0, BFromInt(n), 0)

\* -1, 0, 1 as a < b, a = b, a > b for operands that are not NaN
MagCmp(a, b) ==
    IF IsInf(a) THEN (IF IsInf(b) THEN 0 ELSE 1)
    ELSE IF IsInf(b) THEN -1
    ELSE IF IsZero(a) THEN (IF IsZero(b) THEN 0 ELSE -1)
    ELSE IF IsZero(b) THEN 1
    ELSE IF a.e + BBitLen(a.m) < b.e + BBitLen(b.m) THEN -1
    ELSE IF a.e + BBitLen(a.m) > b.e + BBitLen(b.m) THEN 1
    ELSE LET e == IF a.e < b.e THEN a.e ELSE b.e
         IN  BCmp(BShl(a.m, a.e - e), BShl(b.m, b.e - e))

FCmp(a, b) ==
    IF (IsZero(a) /\ IsZero(b)) THEN 0
    ELSE IF a.s # b.s THEN (IF a.s = 1 THEN -1 ELSE 1)
    ELSE IF a.s = 0 THEN MagCmp(a, b) ELSE MagCmp(b, a)

\* the comparison operators of f32 / f64 (PartialEq, PartialOrd)
FEq(a, b) == ~IsNaN(a) /\ ~IsNaN(b) /\ FCmp(a, b) = 0
FLt(a, b) == ~IsNaN(a) /\ ~IsNaN(b) /\ FCmp(a, b) < 0
FLe(a, b) == ~IsNaN(a) /\ ~IsNaN(b) /\ FCmp(a, b) <= 0

(***************************************************************************)
(* LuminanceValue: the numeric policies.                                   *)
(***************************************************************************)
Channel(T) == T
Weight(T) == T
Weighted(T) == T

\* weight literals with a digit slip
f32_RED_WEIGHT_transposed == FromDecimal("f32", 2216, 10000)
f32_GREEN_WEIGHT_typo == FromDecimal("f32", 7125, 10000)
f64_BLUE_WEIGHT_typo == FromDecimal("f64", 772, 10000)

\* impl LuminanceValue for f32
f32_RED_WEIGHT == FromDecimal("f32", 2126, 10000)
f32_GREEN_WEIGHT == FromDecimal("f32", 7152, 10000)
f32_BLUE_WEIGHT == FromDecimal("f32", 722, 10000)

\* impl LuminanceValue for f64
f64_RED_WEIGHT == FromDecimal("f64", 2126, 10000)
f64_GREEN_WEIGHT == FromDecimal("f64", 7152, 10000)
f64_BLUE_WEIGHT == FromDecimal("f64", 722, 10000)

\* T::RED_WEIGHT, T::GREEN_WEIGHT, T::BLUE_WEIGHT
RED_WEIGHT(T) == IF T = "f32" THEN f32_RED_WEIGHT ELSE f64_RED_WEIGHT
GREEN_WEIGHT(T) == IF T = "f32" THEN f32_GREEN_WEIGHT ELSE f64_GREEN_WEIGHT
BLUE_WEIGHT(T) == IF T = "f32" THEN f32_BLUE_WEIGHT ELSE f64_BLUE_WEIGHT

\* -a
FNeg(a) == IF IsNaN(a) THEN a ELSE [a EXCEPT !.s = 1 - a.s]

\* the sum grouped from the right: r*R + (g*G + b*B)
relative_luminance_regrouped(T, r, g, b) ==
    FAdd(Weighted(T),
         FMul(Weighted(T), r, RED_WEIGHT(T)),
         FAdd(Weighted(T),
              FMul(Weighted(T), g, GREEN_WEIGHT(T)),
              FMul(Weighted(T), b, BLUE_WEIGHT(T))))

\* the blue term subtracted: r*R + g*G - b*B
relative_luminance_minus_blue(T, r, g, b) ==
    FAdd(Weighted(T),
         FAdd(Weighted(T),
              FMul(Weighted(T), r, RED_WEIGHT(T)),
              FMul(Weighted(T), g, GREEN_WEIGHT(T))),
         FNeg(FMul(Weighted(T), b, BLUE_WEIGHT(T))))

\* fn relative_luminance<T>(r, g, b)
relative_luminance(T, r, g, b) ==
    FAdd(Weighted(T),
         FAdd(Weighted(T),
              FMul(Weighted(T), r, RED_WEIGHT(T)),
              FMul(Weighted(T), g, GREEN_WEIGHT(T))),
         FMul(Weighted(T), b, BLUE_WEIGHT(T)))

(***************************************************************************)
(* Rgb<T> and the Luminance<T> trait.                                      *)
(***************************************************************************)
\* a constructor that validates: a negative or NaN channel becomes 0
Rgb_new_clamped(r, g, b) ==
    LET fix(x) == IF IsNaN(x) \/ (x.s = 1 /\ ~IsZero(x)) THEN Zero(0) ELSE x
    IN  [r |-> fix(r), g |-> fix(g), b |-> fix(b)]

\* Rgb::new
Rgb_new(r, g, b) == [r |-> r, g |-> g, b |-> b]

\* Rgb::relative_luminance (the struct's own method)
Rgb_relative_luminance(T, self) == relative_luminance(T, self.r, self.g, self.b)

\* <Rgb<T> as Luminance<T>>::luminance_rgb
Rgb_luminance_rgb(self) == self

\* an override that passes the fields in the order b, g, r
Rgb_trait_relative_luminance_swapped(T, self) ==
    relative_luminance(T, self.b, self.g, self.r)

\* <Rgb<T> as Luminance<T>>::relative_luminance (the override)
Rgb_trait_relative_luminance(T, self) == Rgb_relative_luminance(T, self)

\* an adapter that divides by 256.0
MyRgb_luminance_rgb_256(self) ==
    [r |-> FDivInt("f32", FromInt("f32", self.r), 256),
     g |-> FDivInt("f32", FromInt("f32", self.g), 256),
     b |-> FDivInt("f32", FromInt("f32", self.b), 256)]

\* <MyRgb as Luminance<f32>>::luminance_rgb, <RgbWrapper as Luminance<f32>>::luminance_rgb
MyRgb_luminance_rgb(self) ==
    [r |-> FDivInt("f32", FromInt("f32", self.r), 255),
     g |-> FDivInt("f32", FromInt("f32", self.g), 255),
     b |-> FDivInt("f32", FromInt("f32", self.b), 255)]

\* self.luminance_rgb() by the receiver's implementation
luminance_rgb(recv) ==
    IF recv.kind = "rgb" THEN Rgb_luminance_rgb(recv.v) ELSE MyRgb_luminance_rgb(recv.v)

(***************************************************************************)
(* Callers.  A program builds one colour value (an Rgb<T> through          *)
(* Rgb::new, or an external MyRgb / RgbWrapper of u8 channels) and its     *)
(* callers invoke the methods on a shared reference to it.                 *)
(***************************************************************************)
VARIABLES
    self,    \* the receiver: [kind, T, v]
    args,    \* the arguments the receiver was built from
    pc,      \* per caller: "idle", "normalized" (inside the default method), "returned"
    op,      \* per caller: the method it called
    tmp,     \* per caller: the container self.luminance_rgb() gave the default method
    ret,     \* per caller: the value the call returned
    calls    \* per caller: luminance_rgb invocations made by the current call

vars == <<self, args, pc, op, tmp, ret, calls>>

\* model bounds
MaxNum == 3
GridBits == 2
MaxNumConc == 1
MaxByte == 0
NCallers == 2

NoRgb == [r |-> NaN, g |-> NaN, b |-> NaN, none |-> TRUE]
NoVal == [k |-> "none", s |-> 0, m |-> <<>>, e |-> 0]
NoSelf == [kind |-> "none", T |-> "f32", v |-> NoRgb]

\* channel values: a grid of dyadic fractions and the edge values of the type
MinSub(T) == Fin(0, <<1>>, EminQ(T))
PredOne(T) == Fin(0, BSub(BShl(<<1>>, Prec(T)), <<1>>), -Prec(T))
One(T) == FromInt(T, 1)
Grid(T, n, bits) == {Round(T, 0, BFromInt(i), -bits) : i \in 0..n}
MaxFin(T) == Fin(0, BSub(BShl(<<1>>, Prec(T)), <<1>>), Emax(T) - Prec(T) + 1)
Edge(T) == {Zero(0), Zero(1), One(T), FromInt(T, -1), MinSub(T), PredOne(T),
            MaxFin(T), Inf(0), Inf(1), NaN}
Chan(T) == Grid(T, MaxNum, GridBits) \cup Edge(T)
ChanConc(T) == Grid(T, MaxNumConc, MaxNumConc - 1) \cup {Zero(0), One(T)}
Bytes == (0..MaxByte) \cup {255}

Idle(callers) ==
    /\ pc = [c \in callers |-> "idle"]
    /\ op = [c \in callers |-> "none"]
    /\ tmp = [c \in callers |-> NoRgb]
    /\ ret = [c \in callers |-> NoVal]
    /\ calls = [c \in callers |-> 0]

\* one caller
Init == self = NoSelf /\ args = <<>> /\ Idle(1..1)

\* concurrent callers
InitConc == self = NoSelf /\ args = <<>> /\ Idle(1..NCallers)

\* let c = Rgb::<T>::new(r, g, b)
New(T, r, g, b) ==
    /\ self.kind = "none"
    /\ self' = [kind |-> "rgb", T |-> T, v |-> Rgb_new(r, g, b)]
    /\ args' = <<r, g, b>>
    /\ UNCHANGED <<pc, op, tmp, ret, calls>>

\* let c = MyRgb { r, g, b }, RgbWrapper(Rgb(r, g, b))
NewMyRgb(r, g, b) ==
    /\ self.kind = "none"
    /\ self' = [kind |-> "ext", T |-> "f32", v |-> [r |-> r, g |-> g, b |-> b]]
    /\ args' = <<r, g, b>>
    /\ UNCHANGED <<pc, op, tmp, ret, calls>>

Start(c, name) ==
    /\ self.kind # "none"
    /\ pc[c] = "idle"
    /\ op' = [op EXCEPT ![c] = name]

\* a luminance_rgb that reorders the receiver's channels in place
CallLuminanceRgb_mutating(c) ==
    /\ Start(c, "luminance_rgb")
    /\ pc' = [pc EXCEPT ![c] = "returned"]
    /\ ret' = [ret EXCEPT ![c] = luminance_rgb(self)]
    /\ calls' = [calls EXCEPT ![c] = 1]
    /\ self' = [self EXCEPT !.v = [r |-> self.v.b, g |-> self.v.g, b |-> self.v.r]]
    /\ UNCHANGED <<args, tmp>>

\* c.luminance_rgb()
CallLuminanceRgb(c) ==
    /\ Start(c, "luminance_rgb")
    /\ pc' = [pc EXCEPT ![c] = "returned"]
    /\ ret' = [ret EXCEPT ![c] = luminance_rgb(self)]
    /\ calls' = [calls EXCEPT ![c] = 1]
    /\ UNCHANGED <<self, args, tmp>>

\* Rgb::relative_luminance(&c)
CallStruct(c) ==
    /\ self.kind = "rgb"
    /\ Start(c, "struct")
    /\ pc' = [pc EXCEPT ![c] = "returned"]
    /\ ret' = [ret EXCEPT ![c] = Rgb_relative_luminance(self.T, self.v)]
    /\ UNCHANGED <<self, args, tmp, calls>>

\* Luminance::relative_luminance(&c) for c: Rgb<T>, the override
CallOverride(c) ==
    /\ self.kind = "rgb"
    /\ Start(c, "override")
    /\ pc' = [pc EXCEPT ![c] = "returned"]
    /\ ret' = [ret EXCEPT ![c] = Rgb_trait_relative_luminance(self.T, self.v)]
    /\ UNCHANGED <<self, args, tmp, calls>>

\* Luminance::relative_luminance, the default method: self.luminance_rgb()
DefaultNormalize(c) ==
    /\ Start(c, "default")
    /\ pc' = [pc EXCEPT ![c] = "normalized"]
    /\ tmp' = [tmp EXCEPT ![c] = luminance_rgb(self)]
    /\ calls' = [calls EXCEPT ![c] = calls[c] + 1]
    /\ UNCHANGED <<self, args, ret>>

\* a default method that normalizes a second time before computing
DefaultCompute_renormalize(c) ==
    /\ pc[c] = "normalized"
    /\ pc' = [pc EXCEPT ![c] = "returned"]
    /\ ret' = [ret EXCEPT ![c] = Rgb_relative_luminance(self.T, luminance_rgb(self))]
    /\ calls' = [calls EXCEPT ![c] = calls[c] + 1]
    /\ UNCHANGED <<self, args, op, tmp>>

\* Luminance::relative_luminance, the default method: .relative_luminance()
DefaultCompute(c) ==
    /\ pc[c] = "normalized"
    /\ pc' = [pc EXCEPT ![c] = "returned"]
    /\ ret' = [ret EXCEPT ![c] = Rgb_relative_luminance(self.T, tmp[c])]
    /\ UNCHANGED <<self, args, op, tmp, calls>>

\* the caller takes the value and is ready for its next call
Return(c) ==
    /\ pc[c] = "returned"
    /\ pc' = [pc EXCEPT ![c] = "idle"]
    /\ op' = [op EXCEPT ![c] = "none"]
    /\ tmp' = [tmp EXCEPT ![c] = NoRgb]
    /\ ret' = [ret EXCEPT ![c] = NoVal]
    /\ calls' = [calls EXCEPT ![c] = 0]
    /\ UNCHANGED <<self, args>>

Next ==
    \/ \E T \in Policies : \E r, g, b \in Chan(T) : New(T, r, g, b)
    \/ \E r, g, b \in Bytes : NewMyRgb(r, g, b)
    \/ \E c \in DOMAIN pc : CallLuminanceRgb(c)
    \/ \E c \in DOMAIN pc : CallStruct(c)
    \/ \E c \in DOMAIN pc : CallOverride(c)
    \/ \E c \in DOMAIN pc : DefaultNormalize(c)
    \/ \E c \in DOMAIN pc : DefaultCompute(c)
    \/ \E c \in DOMAIN pc : Return(c)

NextConc ==
    \/ \E T \in Policies : \E r, g, b \in ChanConc(T) : New(T, r, g, b)
    \/ \E r, g, b \in Bytes : NewMyRgb(r, g, b)
    \/ \E c \in DOMAIN pc : CallLuminanceRgb(c)
    \/ \E c \in DOMAIN pc : CallStruct(c)
    \/ \E c \in DOMAIN pc : CallOverride(c)
    \/ \E c \in DOMAIN pc : DefaultNormalize(c)
    \/ \E c \in DOMAIN pc : DefaultCompute(c)
    \/ \E c \in DOMAIN pc : Return(c)

Spec == Init /\ [][Next]_vars

SpecConc == InitConc /\ [][NextConc]_vars

(***************************************************************************)
(* Properties.                                                             *)
(***************************************************************************)
Returned(c, names) == pc[c] = "returned" /\ op[c] \in names
LumOps == {"struct", "override", "default"}
OnRgb == self.kind = "rgb"
SelfIs(r, g, b) == self.v.r = r /\ self.v.g = g /\ self.v.b = b

\* the container a returned luminance call computed on
Operand(c) == IF op[c] = "default" THEN tmp[c] ELSE self.v

\* x is a value of the float type T in its one representation
IsFloat(T, x) ==
    \/ x.k \in {"nan", "inf"}
    \/ /\ x.k = "fin"
       /\ x.s \in {0, 1}
       /\ \/ x.m = <<>>
          \/ /\ BBitLen(x.m) <= Prec(T)
             /\ x.e >= EminQ(T)
             /\ x.e + BBitLen(x.m) - 1 <= Emax(T)
             /\ BBitLen(x.m) = Prec(T) \/ x.e = EminQ(T)

IsRgb(T, x) ==
    /\ DOMAIN x = {"r", "g", "b"}
    /\ IsFloat(T, x.r) /\ IsFloat(T, x.g) /\ IsFloat(T, x.b)

\* 0 <= x <= 1
In01(T, x) == FLe(Zero(0), x) /\ FLe(x, One(T))

\* w is within half a unit in the last place of n / den
IsNearest(T, w, n, den) ==
    /\ w.k = "fin" /\ w.s = 0 /\ w.e < 0 /\ BBitLen(w.m) = Prec(T)
    /\ LET a == BMul(w.m, BFromInt(den))
           b == BShl(BFromInt(n), -w.e)
           d == IF BCmp(a, b) >= 0 THEN BSub(a, b) ELSE BSub(b, a)
       IN  BCmp(BShl(d, 1), BFromInt(den)) <= 0

\* relative_luminance over the channel values of each policy, tabulated
\* (joined with the empty function, which makes it a table of values)
LumTable ==
    [T \in Policies |->
        ([t \in Chan(T) \X Chan(T) \X Chan(T) |->
            relative_luminance(T, t[1], t[2], t[3])] @@ <<>>)] @@ <<>>

\* C1: every returned luminance is (r * RED_WEIGHT + g * GREEN_WEIGHT) +
\* b * BLUE_WEIGHT of the channels it was computed on, the three products
\* rounded first, then red + green, then that sum + blue.
C1_WeightedSumInOrder ==
    \A c \in DOMAIN pc : Returned(c, LumOps) =>
        LET T == self.T
            x == Operand(c)
        IN  ret[c] = FAdd(T, FAdd(T, FMul(T, x.r, RED_WEIGHT(T)),
                                     FMul(T, x.g, GREEN_WEIGHT(T))),
                          FMul(T, x.b, BLUE_WEIGHT(T)))

\* a returned luminance that the other grouping of the sum would not give
C1_Witness ==
    \E c \in DOMAIN pc :
        /\ OnRgb /\ Returned(c, {"struct"})
        /\ ret[c] # relative_luminance_regrouped(self.T, self.v.r, self.v.g, self.v.b)

\* C2: on an Rgb, the trait's relative_luminance (the override) returns what
\* the struct's own method returns and what the general path returns, which
\* is luminance_rgb followed by the luminance of the returned container.
C2_OverrideEqualsStructAndDerived ==
    \A c \in DOMAIN pc : OnRgb /\ Returned(c, {"override"}) =>
        /\ ret[c] = Rgb_relative_luminance(self.T, self.v)
        /\ ret[c] = Rgb_relative_luminance(self.T, Rgb_luminance_rgb(self.v))

\* the override returned on a container whose red and blue channels differ
C2_Witness ==
    \E c \in DOMAIN pc :
        /\ OnRgb /\ Returned(c, {"override"})
        /\ ~FEq(self.v.r, self.v.b) /\ ~IsNaN(ret[c])

\* C3: the default relative_luminance has called luminance_rgb exactly once
\* when it returns, and returns the luminance computation on the r, g, b of
\* the container that call gave it.
C3_DefaultNormalizesOnce ==
    \A c \in DOMAIN pc : Returned(c, {"default"}) =>
        /\ calls[c] = 1
        /\ tmp[c] = luminance_rgb(self)
        /\ ret[c] = relative_luminance(self.T, tmp[c].r, tmp[c].g, tmp[c].b)

\* the default method returned on an external colour
C3_Witness ==
    \E c \in DOMAIN pc :
        /\ self.kind = "ext" /\ SelfIs(255, 255, 0)
        /\ Returned(c, {"default"}) /\ calls[c] = 1

WeightsAsDeclared ==
    \A T \in Policies :
        /\ Channel(T) = T /\ Weight(T) = T /\ Weighted(T) = T
        /\ IsNearest(T, RED_WEIGHT(T), 2126, 10000)
        /\ IsNearest(T, GREEN_WEIGHT(T), 7152, 10000)
        /\ IsNearest(T, BLUE_WEIGHT(T), 722, 10000)
        /\ FAdd(T, FAdd(T, RED_WEIGHT(T), GREEN_WEIGHT(T)), BLUE_WEIGHT(T)) = One(T)

\* C4: for f32 and f64, Channel, Weight and Weighted are the float type
\* itself; the weights are the floats nearest 0.2126, 0.7152 and 0.0722;
\* their sum in that type is 1.0; and the luminance any call returns for a
\* unit colour is the weight itself, whatever ran before.
C4_PolicyWeights ==
    /\ WeightsAsDeclared
    /\ \A c \in DOMAIN pc : OnRgb /\ Returned(c, LumOps) =>
        LET T == self.T
        IN  /\ SelfIs(One(T), Zero(0), Zero(0)) => ret[c] = RED_WEIGHT(T)
            /\ SelfIs(Zero(0), One(T), Zero(0)) => ret[c] = GREEN_WEIGHT(T)
            /\ SelfIs(Zero(0), Zero(0), One(T)) => ret[c] = BLUE_WEIGHT(T)

\* the luminance of pure blue returned under the f64 policy
C4_Witness ==
    \E c \in DOMAIN pc :
        /\ OnRgb /\ self.T = "f64" /\ SelfIs(Zero(0), Zero(0), One("f64"))
        /\ Returned(c, LumOps) /\ ret[c] = f64_BLUE_WEIGHT

\* C5: under both float policies the luminance of (0, 0, 0) is exactly 0
\* and the luminance of (1, 1, 1) is exactly 1.0.
C5_BlackAndWhite ==
    \A c \in DOMAIN pc : OnRgb /\ Returned(c, LumOps) =>
        LET T == self.T
        IN  /\ SelfIs(Zero(0), Zero(0), Zero(0)) => ret[c] = Zero(0)
            /\ SelfIs(One(T), One(T), One(T)) => ret[c] = One(T)

\* the luminance of white returned under the f32 policy
C5_Witness ==
    \E c \in DOMAIN pc :
        /\ OnRgb /\ self.T = "f32" /\ SelfIs(One("f32"), One("f32"), One("f32"))
        /\ Returned(c, LumOps)

\* C6: for the u8 adapter dividing by 255.0 under f32, relative_luminance
\* compares equal to 0.0, 1.0, 0.2126, 0.7152, 0.0722 and 0.9278 on black,
\* white, red, green, blue and yellow.
C6_AdapterTable ==
    \A c \in DOMAIN pc : self.kind = "ext" /\ Returned(c, {"default"}) =>
        /\ SelfIs(0, 0, 0) => FEq(ret[c], FromDecimal("f32", 0, 10))
        /\ SelfIs(255, 255, 255) => FEq(ret[c], FromDecimal("f32", 10, 10))
        /\ SelfIs(255, 0, 0) => FEq(ret[c], FromDecimal("f32", 2126, 10000))
        /\ SelfIs(0, 255, 0) => FEq(ret[c], FromDecimal("f32", 7152, 10000))
        /\ SelfIs(0, 0, 255) => FEq(ret[c], FromDecimal("f32", 722, 10000))
        /\ SelfIs(255, 255, 0) => FEq(ret[c], FromDecimal("f32", 9278, 10000))

\* the adapter's luminance of white returned
C6_Witness ==
    \E c \in DOMAIN pc :
        /\ self.kind = "ext" /\ SelfIs(255, 255, 255)
        /\ Returned(c, {"default"})

\* C7: a returned luminance is never greater than the luminance of the same
\* container with one channel replaced by a greater value.
C7_Monotone ==
    \A c \in DOMAIN pc : OnRgb /\ Returned(c, LumOps) =>
        \A v \in Chan(self.T) :
            /\ FLt(self.v.r, v) =>
                  ~FLt(LumTable[self.T][<<v, self.v.g, self.v.b>>], ret[c])
            /\ FLt(self.v.g, v) =>
                  ~FLt(LumTable[self.T][<<self.v.r, v, self.v.b>>], ret[c])
            /\ FLt(self.v.b, v) =>
                  ~FLt(LumTable[self.T][<<self.v.r, self.v.g, v>>], ret[c])

\* a returned luminance strictly below that of the container with blue raised
C7_Witness ==
    \E c \in DOMAIN pc :
        /\ OnRgb /\ Returned(c, LumOps)
        /\ \E v \in Chan(self.T) :
              /\ FLt(self.v.b, v)
              /\ FLt(ret[c], LumTable[self.T][<<self.v.r, self.v.g, v>>])

\* C8: Rgb::new keeps its three arguments as the fields, whatever they are;
\* for every receiver luminance_rgb gives a container of floats and
\* relative_luminance gives a float (NaN and the infinities included),
\* never anything else.
C8_TotalNoValidation ==
    /\ OnRgb => SelfIs(args[1], args[2], args[3])
    /\ \A c \in DOMAIN pc :
        /\ pc[c] = "normalized" => IsRgb(self.T, tmp[c])
        /\ Returned(c, {"luminance_rgb"}) => IsRgb(self.T, ret[c])
        /\ Returned(c, LumOps) => IsFloat(self.T, ret[c])

\* a luminance returned for a container with a channel outside [0, 1]
C8_Witness ==
    \E c \in DOMAIN pc :
        /\ OnRgb /\ Returned(c, LumOps)
        /\ ~In01(self.T, self.v.r)
        /\ IsFloat(self.T, ret[c])

\* what a call returns when no other caller runs
Alone(name) ==
    IF name = "luminance_rgb" THEN luminance_rgb(self)
    ELSE Rgb_relative_luminance(self.T, luminance_rgb(self))

C9_Results ==
    \A c \in DOMAIN pc :
        /\ pc[c] = "returned" => ret[c] = Alone(op[c])
        /\ OnRgb /\ Returned(c, {"luminance_rgb"}) => ret[c] = self.v
        /\ OnRgb /\ pc[c] = "normalized" => tmp[c] = self.v

\* C9: with callers interleaved on one value, no step of a call changes the
\* value, luminance_rgb on an Rgb returns the same three fields, and every
\* call returns what it returns when run alone.
C9_NoMutation ==
    /\ []C9_Results
    /\ [][self.kind # "none" => self' = self]_vars

\* two callers inside calls on the same Rgb at once
C9_Witness ==
    /\ OnRgb /\ ~SelfIs(Zero(0), Zero(0), Zero(0))
    /\ \E c, d \in DOMAIN pc :
          /\ c # d
          /\ pc[c] = "normalized"
          /\ Returned(d, {"luminance_rgb"})

AllIn01 == In01(self.T, self.v.r) /\ In01(self.T, self.v.g) /\ In01(self.T, self.v.b)
AllEq(x) == FEq(self.v.r, x) /\ FEq(self.v.g, x) /\ FEq(self.v.b, x)

\* C10 as amended: with all three channels in [0, 1] the luminance is in
\* [0, 1]; it is 0 for (0, 0, 0) and 1 for (1, 1, 1).
C10_Range ==
    \A c \in DOMAIN pc : OnRgb /\ Returned(c, LumOps) /\ AllIn01 =>
        /\ In01(self.T, ret[c])
        /\ AllEq(Zero(0)) => FEq(ret[c], Zero(0))
        /\ AllEq(One(self.T)) => FEq(ret[c], One(self.T))

\* the luminance 1 returned for a container in [0, 1] with blue below 1
C10_Witness ==
    \E c \in DOMAIN pc :
        /\ OnRgb /\ Returned(c, LumOps) /\ AllIn01
        /\ FLt(self.v.b, One(self.T))
        /\ FEq(ret[c], One(self.T))

\* C10 as stated: in [0, 1], 0 only for (0, 0, 0) and 1 only for (1, 1, 1)
C10_OnlyAtTheCorners ==
    \A c \in DOMAIN pc : OnRgb /\ Returned(c, LumOps) /\ AllIn01 =>
        /\ In01(self.T, ret[c])
        /\ FEq(ret[c], Zero(0)) <=> AllEq(Zero(0))
        /\ FEq(ret[c], One(self.T)) <=> AllEq(One(self.T))

=============================================================================
